---- MODULE Spec2Model ----
(***************************************************************************)
(* Dots2Detector (python/sglang/srt/function_call/dots_detector.py):       *)
(* the one-shot extractor detect_and_parse and the incremental extractor   *)
(* parse_streaming_increment, over texts that are sequences of symbols.    *)
(*                                                                         *)
(* A text is a sequence of one-character symbols.  The symbol "T" stands   *)
(* for the run of characters `dots_function_call>` of both delimiters, so  *)
(* the opening delimiter is "<" "T" and the closing one "<" "/" "T": they  *)
(* share their first character and differ from the second on, as in the    *)
(* source.  JSON is read over the symbols                                  *)
(*    "{" "}" ","      punctuation                                         *)
(*    "N" "A" "X"      the keys "name": "arguments": "x": (colon included) *)
(*    "f" "g"          the string literals "f" and "g"                     *)
(*    "1"              a digit                                             *)
(*    " "              whitespace                                          *)
(* and "a" is a character of ordinary prose.                               *)
(***************************************************************************)
EXTENDS Integers, Sequences, FiniteSets, TLC

VARIABLES
    text,                    \* the whole model output of this run
    rest,                    \* the part of text not yet fed to the detector
    buffer,                  \* self._buffer
    current_tool_id,         \* self.current_tool_id
    current_tool_name_sent,  \* self.current_tool_name_sent
    last_arguments,          \* self._last_arguments
    prev_tool_call_arr,      \* self.prev_tool_call_arr
    streamed_args_for_tool,  \* self.streamed_args_for_tool
    result,                  \* what the last parse_streaming_increment returned
    events,                  \* history: every item emitted, every closer consumed
    oneshot                  \* what detect_and_parse(text) returned, once called

vars == <<text, rest, buffer, current_tool_id, current_tool_name_sent,
          last_arguments, prev_tool_call_arr, streamed_args_for_tool,
          result, events, oneshot>>

detector == <<buffer, current_tool_id, current_tool_name_sent, last_arguments,
              prev_tool_call_arr, streamed_args_for_tool>>

----------------------------------------------------------------------------
(* Python str operations, on sequences; indices are Python's (0-based).    *)

bot_token == <<"<", "T">>
eot_token == <<"<", "/", "T">>

\* s[a:b]
Slice(s, a, b) == SubSeq(s, a + 1, b)

\* t occurs in s at offset k
OccursAt(s, t, k) ==
    /\ k >= 0
    /\ k + Len(t) <= Len(s)
    /\ \A j \in 1..Len(t) : s[k + j] = t[j]

\* s.find(t, start): the least offset >= start where t occurs, or -1
RECURSIVE Find(_, _, _)
Find(s, t, start) ==
    IF start + Len(t) > Len(s) THEN -1
    ELSE IF OccursAt(s, t, start) THEN start
    ELSE Find(s, t, start + 1)

\* t in s
Contains(s, t) == Find(s, t, 0) # -1

\* s.startswith(p)
StartsWith(s, p) == OccursAt(s, p, 0)

\* s.replace(t, ""): the occurrences of t, left to right, not overlapping
RECURSIVE Remove(_, _)
Remove(s, t) ==
    LET k == Find(s, t, 0)
    IN  IF k = -1 THEN s
        ELSE Slice(s, 0, k) \o Remove(Slice(s, k + Len(t), Len(s)), t)

IsSpace(c) == c = " "

\* the first offset (1-based) at or after i that holds no whitespace
RECURSIVE SkipWs(_, _)
SkipWs(s, i) == IF i <= Len(s) /\ IsSpace(s[i]) THEN SkipWs(s, i + 1) ELSE i

\* the last offset (1-based) at or before i that holds no whitespace, or 0
RECURSIVE SkipWsBack(_, _)
SkipWsBack(s, i) == IF i >= 1 /\ IsSpace(s[i]) THEN SkipWsBack(s, i - 1) ELSE i

\* s.strip()
Strip(s) == SubSeq(s, SkipWs(s, 1), SkipWsBack(s, Len(s)))

----------------------------------------------------------------------------
(* JSON values.  Every value is a record of the same shape:                *)
(*   t = "obj": m is the sequence of members [k, v], in insertion order    *)
(*   t = "num": s is the digits;  t = "str": s is the one symbol           *)
(*   t = "none": Python's None                                             *)

NoneV == [t |-> "none", s |-> <<>>, m |-> <<>>]
NumV(d) == [t |-> "num", s |-> d, m |-> <<>>]
StrV(c) == [t |-> "str", s |-> <<c>>, m |-> <<>>]
ObjV(ms) == [t |-> "obj", s |-> <<>>, m |-> ms]

Keys == {"N", "A", "X"}
Strings == {"f", "g"}

\* dict[key] = v: a repeated key keeps its place and takes the later value
Put(ms, key, v) ==
    IF \E i \in 1..Len(ms) : ms[i].k = key
    THEN [i \in 1..Len(ms) |-> IF ms[i].k = key THEN [k |-> key, v |-> v] ELSE ms[i]]
    ELSE Append(ms, [k |-> key, v |-> v])

Fail == [ok |-> FALSE, v |-> NoneV, i |-> 0]

\* the end of the run of digits that starts at i
RECURSIVE DigitsEnd(_, _)
DigitsEnd(s, i) == IF i <= Len(s) /\ s[i] = "1" THEN DigitsEnd(s, i + 1) ELSE i

RECURSIVE ParseValue(_, _), ParseMembers(_, _, _)
\* a JSON value starting at i (no whitespace at i): [ok, v, i = offset after it]
ParseValue(s, i) ==
    IF i > Len(s) THEN Fail
    ELSE IF s[i] = "1"
    THEN [ok |-> TRUE, v |-> NumV(SubSeq(s, i, DigitsEnd(s, i) - 1)), i |-> DigitsEnd(s, i)]
    ELSE IF s[i] \in Strings
    THEN [ok |-> TRUE, v |-> StrV(s[i]), i |-> i + 1]
    ELSE IF s[i] = "{"
    THEN LET j == SkipWs(s, i + 1)
         IN  IF j <= Len(s) /\ s[j] = "}"
             THEN [ok |-> TRUE, v |-> ObjV(<<>>), i |-> j + 1]
             ELSE ParseMembers(s, j, <<>>)
    ELSE Fail

\* the members of an object from the key at i on, up to the closing brace
ParseMembers(s, i, acc) ==
    IF i > Len(s) \/ s[i] \notin Keys THEN Fail
    ELSE LET r == ParseValue(s, SkipWs(s, i + 1))
         IN  IF ~r.ok THEN Fail
             ELSE LET ms == Put(acc, s[i], r.v)
                      k == SkipWs(s, r.i)
                  IN  IF k > Len(s) THEN Fail
                      ELSE IF s[k] = "}" THEN [ok |-> TRUE, v |-> ObjV(ms), i |-> k + 1]
                      ELSE IF s[k] = "," THEN ParseMembers(s, SkipWs(s, k + 1), ms)
                      ELSE Fail

\* json.loads(s): ok = FALSE is json.JSONDecodeError
json_loads(s) ==
    LET r == ParseValue(s, SkipWs(s, 1))
    IN  IF r.ok /\ SkipWs(s, r.i) > Len(s) THEN [ok |-> TRUE, v |-> r.v]
        ELSE [ok |-> FALSE, v |-> NoneV]

\* json.dumps(v), with Python's separators ", " and ": "
RECURSIVE json_dumps(_), DumpMembers(_, _)
json_dumps(v) ==
    IF v.t = "obj" THEN <<"{">> \o DumpMembers(v.m, 1) \o <<"}">>
    ELSE v.s

DumpMembers(ms, i) ==
    IF i > Len(ms) THEN <<>>
    ELSE (IF i > 1 THEN <<",", " ">> ELSE <<>>)
         \o <<ms[i].k, " ">> \o json_dumps(ms[i].v) \o DumpMembers(ms, i + 1)

\* only a dict has .get: on any other value the call raises AttributeError
IsDict(v) == v.t = "obj"

\* d.get(key, default)
Get(d, key, default) ==
    IF \E i \in 1..Len(d.m) : d.m[i].k = key
    THEN d.m[CHOOSE i \in 1..Len(d.m) : d.m[i].k = key].v
    ELSE default

\* Python truthiness of a value
Truthy(v) ==
    IF v.t = "obj" THEN v.m # <<>>
    ELSE v.t # "none"

----------------------------------------------------------------------------
(* What the detector hands back.                                           *)

\* ToolCallItem(tool_index, name, parameters); name = NoneV is name=None
ToolCallItem(idx, name, params) ==
    [tool_index |-> idx, name |-> name, parameters |-> params]

\* StreamingParseResult(normal_text, calls); branch names the return taken
StreamingParseResult(normal, calls, branch) ==
    [normal_text |-> normal, calls |-> calls, branch |-> branch]

\* an entry of prev_tool_call_arr; AbsentV marks a key the dict does not hold
AbsentV == [t |-> "absent", s |-> <<>>, m |-> <<>>]
EmptyEntry == [name |-> AbsentV, arguments |-> AbsentV]
Entry(name, args) == [name |-> name, arguments |-> args]

\* json.dumps(func_args) if func_args else ""
ArgsStr(func_args) == IF Truthy(func_args) THEN json_dumps(func_args) ELSE <<>>

\* _is_complete_json(s): s parses as a JSON value
is_complete_json(s) == json_loads(s).ok

----------------------------------------------------------------------------
(* detect_and_parse                                                        *)

\* re.findall(func_call_regex, text, re.DOTALL): the groups, left to right.
\* A match runs from an opening delimiter to the first closing delimiter
\* after it; its group is the interior without the whitespace \s* takes on
\* both sides; the scan resumes after the closing delimiter.
RECURSIVE FindAll(_)
FindAll(t) ==
    LET p == Find(t, bot_token, 0)
        e == IF p = -1 THEN -1 ELSE Find(t, eot_token, p + Len(bot_token))
    IN  IF e = -1 THEN <<>>
        ELSE <<Strip(Slice(t, p + Len(bot_token), e))>>
             \o FindAll(Slice(t, e + Len(eot_token), Len(t)))

\* parse_base_json(match_result_obj, tools): one item per {name, parameters},
\* parameters serialized; k is the item's place in the call list
parse_base_json(func_name, func_args, k) ==
    <<ToolCallItem(k, func_name, json_dumps(func_args))>>

\* faulty variant of ParseMatches: a region that fails is skipped (the try inside
\* the loop), and the calls of the others are returned
RECURSIVE ParseMatchesSkip(_, _, _)
ParseMatchesSkip(match_results, i, calls) ==
    IF i > Len(match_results) THEN [ok |-> TRUE, calls |-> calls]
    ELSE LET r == json_loads(Strip(match_results[i]))
         IN  IF ~r.ok \/ ~IsDict(r.v) THEN ParseMatchesSkip(match_results, i + 1, calls)
             ELSE ParseMatchesSkip(match_results, i + 1,
                      calls \o parse_base_json(Get(r.v, "N", NoneV),
                                               Get(r.v, "A", ObjV(<<>>)),
                                               Len(calls)))

\* the loop body over match_results from the i-th on; ok = FALSE when an
\* exception left the try block (JSONDecodeError, or .get on a non-dict)
RECURSIVE ParseMatches(_, _, _)
ParseMatches(match_results, i, calls) ==
    IF i > Len(match_results) THEN [ok |-> TRUE, calls |-> calls]
    ELSE LET r == json_loads(Strip(match_results[i]))
         IN  IF ~r.ok \/ ~IsDict(r.v) THEN [ok |-> FALSE, calls |-> <<>>]
             ELSE ParseMatches(match_results, i + 1,
                      calls \o parse_base_json(Get(r.v, "N", NoneV),
                                               Get(r.v, "A", ObjV(<<>>)),
                                               Len(calls)))

\* faulty variant of NormalText: the strip() is missing
NormalTextUntrimmed(t) ==
    LET idx == Find(t, bot_token, 0)
    IN  IF idx # -1 THEN Slice(t, 0, idx) ELSE t

\* normal_text = text[:idx].strip() if idx != -1 else text
NormalText(t) ==
    LET idx == Find(t, bot_token, 0)
    IN  IF idx # -1 THEN Strip(Slice(t, 0, idx)) ELSE t

detect_and_parse(t) ==
    LET normal_text == NormalText(t)
        parsed == ParseMatches(FindAll(t), 1, <<>>)
    IN  IF ~Contains(t, bot_token)
        THEN StreamingParseResult(normal_text, <<>>, "no_tool_call")
        ELSE IF parsed.ok
        THEN StreamingParseResult(normal_text, parsed.calls, "parsed")
        ELSE StreamingParseResult(t, <<>>, "except")

----------------------------------------------------------------------------
(* parse_streaming_increment                                               *)

NoResult == StreamingParseResult(<<>>, <<>>, "none")

\* history records: an item handed to the caller, or a closing delimiter
\* consumed (with the index, name and serialized arguments of the call closed)
ItemEvent(it) ==
    [kind |-> "item", tool_index |-> it.tool_index, name |-> it.name,
     parameters |-> it.parameters]
CloseEvent(idx, name, args_str) ==
    [kind |-> "close", tool_index |-> idx, name |-> name, parameters |-> args_str]
ItemEvents(calls) == [i \in 1..Len(calls) |-> ItemEvent(calls[i])]

\* start_idx = current_text.find(self.bot_token)
StartIdx(current_text) == Find(current_text, bot_token, 0)

\* s.rfind(t) below offset k
RECURSIVE FindLast(_, _, _)
FindLast(s, t, k) ==
    IF k < 0 THEN -1
    ELSE IF OccursAt(s, t, k) THEN k
    ELSE FindLast(s, t, k - 1)

\* faulty variant of EndIdx: the last closing delimiter (rfind) instead of the first
EndIdxLast(current_text) ==
    LET start_idx == StartIdx(current_text)
        e == FindLast(current_text, eot_token, Len(current_text) - Len(eot_token))
    IN  IF start_idx = -1 \/ e < start_idx THEN -1 ELSE e

\* end_idx = current_text.find(self.eot_token, start_idx); -1 too when the
\* opening delimiter is missing (the code returns before it looks)
EndIdx(current_text) ==
    LET start_idx == StartIdx(current_text)
    IN  IF start_idx = -1 THEN -1 ELSE Find(current_text, eot_token, start_idx)

\* json_content = current_text[start_idx + len(bot_token) : end_idx].strip()
JsonContent(current_text, end_idx) ==
    Strip(Slice(current_text, StartIdx(current_text) + Len(bot_token), end_idx))

\* partial_json = current_text[json_start:].strip()
PartialJson(current_text) ==
    Strip(Slice(current_text, StartIdx(current_text) + Len(bot_token),
                Len(current_text)))

\* faulty variant of BufferAfterCall: the closing delimiter stays in the buffer
BufferAfterCallKeepsCloser(current_text, end_idx) ==
    Slice(current_text, end_idx, Len(current_text))

\* self._buffer = current_text[end_idx + len(self.eot_token) :]
BufferAfterCall(current_text, end_idx) ==
    Slice(current_text, end_idx + Len(eot_token), Len(current_text))

\* faulty variant of PadTo: one entry too many
RECURSIVE PadToOneMore(_, _, _)
PadToOneMore(arr, id, fill) ==
    IF Len(arr) <= id + 1 THEN PadToOneMore(Append(arr, fill), id, fill) ELSE arr

\* while len(arr) <= self.current_tool_id: arr.append(fill)
RECURSIVE PadTo(_, _, _)
PadTo(arr, id, fill) ==
    IF Len(arr) <= id THEN PadTo(Append(arr, fill), id, fill) ELSE arr

\* argument_diff: the suffix after what was sent, or all of args_str
ArgumentDiff(args_str, sent) ==
    IF StartsWith(args_str, sent) THEN Slice(args_str, Len(sent), Len(args_str))
    ELSE args_str

\* the new_text of a step is taken from the front of rest
Fed(new_text) ==
    /\ new_text = SubSeq(rest, 1, Len(new_text))
    /\ rest' = SubSeq(rest, Len(new_text) + 1, Len(rest))
    /\ UNCHANGED <<text, oneshot>>

\* faulty variant of CleanedText: the closing delimiters are left in
CleanedTextKept(new_text) == new_text

\* for e_token in [self.eot_token]: new_text = new_text.replace(e_token, "")
CleanedText(new_text) == Remove(new_text, eot_token)

\* faulty variant of NoToolCall: the whole buffer is handed back, not the fragment
NoToolCallWholeBuffer(new_text) ==
    LET current_text == buffer \o new_text
    IN  /\ ~Contains(current_text, bot_token)
        /\ buffer' = <<>>
        /\ result' = StreamingParseResult(CleanedText(current_text), <<>>, "no_tool_call")
        /\ UNCHANGED <<current_tool_id, current_tool_name_sent, last_arguments,
                       prev_tool_call_arr, streamed_args_for_tool, events>>
        /\ Fed(new_text)

\* no opening delimiter in the buffer: the fragment is plain text
NoToolCall(new_text) ==
    LET current_text == buffer \o new_text
    IN  /\ ~Contains(current_text, bot_token)
        /\ buffer' = <<>>
        /\ result' = StreamingParseResult(CleanedText(new_text), <<>>, "no_tool_call")
        /\ UNCHANGED <<current_tool_id, current_tool_name_sent, last_arguments,
                       prev_tool_call_arr, streamed_args_for_tool, events>>
        /\ Fed(new_text)

\* faulty variant of NextToolId: the index is not advanced
NextToolIdStuck(id) == id

\* self.current_tool_id += 1
NextToolId(id) == id + 1

\* faulty variant of CompleteCallItem: the arguments are left out
CompleteCallItemNameOnly(id, func_name, func_args) ==
    ToolCallItem(id, func_name, <<>>)

\* the complete tool call of the closing-delimiter branch
CompleteCallItem(id, func_name, func_args) ==
    ToolCallItem(id, func_name, ArgsStr(func_args))

\* faulty variant of CompleteCall: the text before the opening delimiter is
\* handed back as plain text
CompleteCallReturnsPrefix(new_text, func_call_json) ==
    LET current_text == buffer \o new_text
        end_idx == EndIdx(current_text)
        func_name == Get(func_call_json, "N", NoneV)
        func_args == Get(func_call_json, "A", ObjV(<<>>))
        first == current_tool_id = -1
        id == IF first THEN 0 ELSE current_tool_id
        prev == PadTo(IF first THEN <<>> ELSE prev_tool_call_arr, id, EmptyEntry)
        streamed == PadTo(IF first THEN <<<<>>>> ELSE streamed_args_for_tool, id, <<>>)
        calls == <<CompleteCallItem(id, func_name, func_args)>>
    IN  /\ prev_tool_call_arr' = [prev EXCEPT ![id + 1] = Entry(func_name, func_args)]
        /\ streamed_args_for_tool' = streamed
        /\ buffer' = BufferAfterCall(current_text, end_idx)
        /\ current_tool_id' = NextToolId(id)
        /\ last_arguments' = <<>>
        /\ current_tool_name_sent' = FALSE
        /\ result' = StreamingParseResult(Slice(current_text, 0, StartIdx(current_text)),
                                          calls, "complete_call")
        /\ events' = events \o ItemEvents(calls)
                            \o <<CloseEvent(id, func_name, ArgsStr(func_args))>>
        /\ Fed(new_text)

\* opening and closing delimiter found, the interior is a JSON object
CompleteCall(new_text, func_call_json) ==
    LET current_text == buffer \o new_text
        end_idx == EndIdx(current_text)
        func_name == Get(func_call_json, "N", NoneV)
        func_args == Get(func_call_json, "A", ObjV(<<>>))
        first == current_tool_id = -1
        id == IF first THEN 0 ELSE current_tool_id
        prev == PadTo(IF first THEN <<>> ELSE prev_tool_call_arr, id, EmptyEntry)
        streamed == PadTo(IF first THEN <<<<>>>> ELSE streamed_args_for_tool, id, <<>>)
        calls == <<CompleteCallItem(id, func_name, func_args)>>
    IN  /\ prev_tool_call_arr' = [prev EXCEPT ![id + 1] = Entry(func_name, func_args)]
        /\ streamed_args_for_tool' = streamed
        /\ buffer' = BufferAfterCall(current_text, end_idx)
        /\ current_tool_id' = NextToolId(id)
        /\ last_arguments' = <<>>
        /\ current_tool_name_sent' = FALSE
        /\ result' = StreamingParseResult(<<>>, calls, "complete_call")
        /\ events' = events \o ItemEvents(calls)
                            \o <<CloseEvent(id, func_name, ArgsStr(func_args))>>
        /\ Fed(new_text)

\* faulty variant of DeferMalformed: the malformed region is dropped from the
\* buffer
DeferMalformedConsumed(new_text) ==
    LET current_text == buffer \o new_text
    IN  /\ buffer' = BufferAfterCall(current_text, EndIdx(current_text))
        /\ result' = StreamingParseResult(<<>>, <<>>, "decode_error")
        /\ UNCHANGED <<current_tool_id, current_tool_name_sent, last_arguments,
                       prev_tool_call_arr, streamed_args_for_tool, events>>
        /\ Fed(new_text)

\* faulty variant of DeferMalformed: the buffer is handed back as plain text
DeferMalformedAsText(new_text) ==
    LET current_text == buffer \o new_text
    IN  /\ buffer' = current_text
        /\ result' = StreamingParseResult(current_text, <<>>, "decode_error")
        /\ UNCHANGED <<current_tool_id, current_tool_name_sent, last_arguments,
                       prev_tool_call_arr, streamed_args_for_tool, events>>
        /\ Fed(new_text)

\* opening and closing delimiter found, the interior is no JSON:
\* except json.JSONDecodeError: pass
DeferMalformed(new_text) ==
    LET current_text == buffer \o new_text
    IN  /\ buffer' = current_text
        /\ result' = StreamingParseResult(<<>>, <<>>, "decode_error")
        /\ UNCHANGED <<current_tool_id, current_tool_name_sent, last_arguments,
                       prev_tool_call_arr, streamed_args_for_tool, events>>
        /\ Fed(new_text)

\* faulty variant of KeepBuffering: the flag is cleared while waiting
KeepBufferingResetsFlag(new_text) ==
    LET current_text == buffer \o new_text
    IN  /\ buffer' = current_text
        /\ result' = StreamingParseResult(<<>>, <<>>, "incomplete")
        /\ current_tool_name_sent' = FALSE
        /\ UNCHANGED <<current_tool_id, last_arguments,
                       prev_tool_call_arr, streamed_args_for_tool, events>>
        /\ Fed(new_text)

\* no closing delimiter, and what follows the opening one is no complete JSON
KeepBuffering(new_text) ==
    LET current_text == buffer \o new_text
    IN  /\ buffer' = current_text
        /\ result' = StreamingParseResult(<<>>, <<>>, "incomplete")
        /\ UNCHANGED <<current_tool_id, current_tool_name_sent, last_arguments,
                       prev_tool_call_arr, streamed_args_for_tool, events>>
        /\ Fed(new_text)

\* faulty variant of StreamItems: the increment is put before the name
StreamItemsArgsFirst(id, name_sent, func_name, argument_diff) ==
    (IF argument_diff # <<>> THEN <<ToolCallItem(id, NoneV, argument_diff)>> ELSE <<>>)
    \o (IF ~name_sent THEN <<ToolCallItem(id, func_name, <<>>)>> ELSE <<>>)

\* the items of the still-streaming branch: the name once, then the increment
StreamItems(id, name_sent, func_name, argument_diff) ==
    (IF ~name_sent THEN <<ToolCallItem(id, func_name, <<>>)>> ELSE <<>>)
    \o (IF argument_diff # <<>> THEN <<ToolCallItem(id, NoneV, argument_diff)>> ELSE <<>>)

\* no closing delimiter yet, and what follows the opening one is a JSON object
StreamComplete(new_text, func_call_json) ==
    LET current_text == buffer \o new_text
        func_name == Get(func_call_json, "N", NoneV)
        func_args == Get(func_call_json, "A", ObjV(<<>>))
        first == current_tool_id = -1
        id == IF first THEN 0 ELSE current_tool_id
        name_sent == IF first THEN FALSE ELSE current_tool_name_sent
        prev0 == PadTo(IF first THEN <<>> ELSE prev_tool_call_arr, id, EmptyEntry)
        streamed0 == PadTo(IF first THEN <<<<>>>> ELSE streamed_args_for_tool, id, <<>>)
        prev1 == IF ~name_sent
                 THEN [prev0 EXCEPT ![id + 1] = Entry(func_name, ObjV(<<>>))]
                 ELSE prev0
        args_str == ArgsStr(func_args)
        argument_diff == ArgumentDiff(args_str, last_arguments)
        calls == StreamItems(id, name_sent, func_name, argument_diff)
    IN  /\ buffer' = current_text
        /\ current_tool_id' = id
        /\ current_tool_name_sent' = TRUE
        /\ IF argument_diff # <<>>
           THEN /\ last_arguments' = last_arguments \o argument_diff
                /\ streamed_args_for_tool' =
                       [streamed0 EXCEPT ![id + 1] = @ \o argument_diff]
                /\ prev_tool_call_arr' = [prev1 EXCEPT ![id + 1].arguments = func_args]
           ELSE /\ last_arguments' = last_arguments
                /\ streamed_args_for_tool' = streamed0
                /\ prev_tool_call_arr' = prev1
        /\ result' = StreamingParseResult(<<>>, calls, "streaming")
        /\ events' = events \o ItemEvents(calls)
        /\ Fed(new_text)

\* faulty variant of FailSafe: the buffer is dropped with the text handed back
FailSafeCleared(new_text) ==
    LET current_text == buffer \o new_text
    IN  /\ buffer' = <<>>
        /\ result' = StreamingParseResult(current_text, <<>>, "except")
        /\ UNCHANGED <<current_tool_id, current_tool_name_sent, last_arguments,
                       prev_tool_call_arr, streamed_args_for_tool, events>>
        /\ Fed(new_text)

\* the payload is JSON but no object: .get raises AttributeError, caught by
\* except Exception: return StreamingParseResult(normal_text=current_text)
FailSafe(new_text) ==
    LET current_text == buffer \o new_text
    IN  /\ buffer' = current_text
        /\ result' = StreamingParseResult(current_text, <<>>, "except")
        /\ UNCHANGED <<current_tool_id, current_tool_name_sent, last_arguments,
                       prev_tool_call_arr, streamed_args_for_tool, events>>
        /\ Fed(new_text)

\* The control flow of the method.  With a closing delimiter the payload is
\* json_content, parsed by json.loads; without one it is partial_json, and
\* json.loads runs only when it is non-empty and _is_complete_json holds.
parse_streaming_increment(new_text) ==
    LET current_text == buffer \o new_text
        end_idx == EndIdx(current_text)
    IN  IF ~Contains(current_text, bot_token) THEN NoToolCall(new_text)
        ELSE IF end_idx # -1
        THEN LET r == json_loads(JsonContent(current_text, end_idx))
             IN  IF ~r.ok THEN DeferMalformed(new_text)
                 ELSE IF ~IsDict(r.v) THEN FailSafe(new_text)
                 ELSE CompleteCall(new_text, r.v)
        ELSE LET partial_json == PartialJson(current_text)
             IN  IF ~(partial_json # <<>> /\ is_complete_json(partial_json))
                 THEN KeepBuffering(new_text)
                 ELSE LET r == json_loads(partial_json)
                      IN  IF ~IsDict(r.v) THEN FailSafe(new_text)
                          ELSE StreamComplete(new_text, r.v)

\* oneshot before detect_and_parse was called
NotCalled == StreamingParseResult(<<>>, <<>>, "not_called")

DetectAndParse ==
    /\ oneshot = NotCalled
    /\ oneshot' = detect_and_parse(text)
    /\ UNCHANGED <<rest, buffer, current_tool_id, current_tool_name_sent,
                   last_arguments, prev_tool_call_arr, streamed_args_for_tool,
                   result, events, text>>

----------------------------------------------------------------------------
(* The texts a run is given.                                               *)

MaxSegs == 3
MaxFrag == 4
MaxShotSegs == 4

\* {"name": "f", "arguments": {"x": 1}} as the model writes it (no spaces)
Jf == <<"{", "N", "f", ",", "A", "{", "X", "1", "}", "}">>
\* {"name": "g"}
Jg == <<"{", "N", "g", "}">>
\* the number 1: JSON, but no object
One == <<"1">>

\* prose, a closing delimiter, an opened call f, a whole call g (with
\* whitespace before its JSON), an opened number
Segments ==
    {<<"a">>, eot_token, bot_token \o Jf,
     bot_token \o <<" ">> \o Jg \o eot_token, bot_token \o One}

RECURSIVE TextsUpTo(_)
TextsUpTo(n) ==
    IF n = 0 THEN {<<>>}
    ELSE LET shorter == TextsUpTo(n - 1)
         IN  shorter \cup {t \o seg : t \in shorter, seg \in Segments}

Texts == TextsUpTo(MaxSegs)

\* super().__init__(): the fields BaseFormatDetector sets
BaseFields ==
    /\ buffer = <<>>
    /\ current_tool_name_sent = FALSE
    /\ prev_tool_call_arr = <<>>
    /\ streamed_args_for_tool = <<>>

\* Dots2Detector(): the fields as __init__ leaves them
Fresh ==
    /\ BaseFields
    /\ current_tool_id = -1
    /\ last_arguments = <<>>

Init ==
    /\ text \in Texts
    /\ rest = text
    /\ Fresh
    /\ result = NoResult
    /\ events = <<>>
    /\ oneshot = NotCalled

\* the lengths of the next fragment: a streaming caller hands over a few
\* symbols at a time (none, too), or all that is left at once
FragLens == {n \in 0..Len(rest) : n <= MaxFrag \/ n = Len(rest)}

\* the caller feeds the text fragment by fragment, wherever the cuts fall
Feed == \E n \in FragLens : parse_streaming_increment(SubSeq(rest, 1, n))

Next == Feed

Spec == Init /\ [][Next]_vars

----------------------------------------------------------------------------
(* The two entry points on one whole text: detect_and_parse(text), and     *)
(* parse_streaming_increment given the text as a single fragment.          *)

\* prose with whitespace around it, a stray closing delimiter, whole calls
\* f and g, a region holding a number, an unterminated call
ShotSegments ==
    {<<" ", "a", " ">>, eot_token,
     bot_token \o Jf \o eot_token,
     bot_token \o <<" ">> \o Jg \o <<" ">> \o eot_token,
     bot_token \o One \o eot_token,
     bot_token \o Jf}

RECURSIVE ShotTextsUpTo(_)
ShotTextsUpTo(n) ==
    IF n = 0 THEN {<<>>}
    ELSE LET shorter == ShotTextsUpTo(n - 1)
         IN  shorter \cup {t \o seg : t \in shorter, seg \in ShotSegments}

ShotTexts == ShotTextsUpTo(MaxShotSegs)

InitOneShot ==
    /\ text \in ShotTexts
    /\ rest = text
    /\ Fresh
    /\ result = NoResult
    /\ events = <<>>
    /\ oneshot = NotCalled

\* all that is left in one fragment (the empty fragment once nothing is left)
FeedAll == parse_streaming_increment(rest)

NextOneShot == DetectAndParse \/ FeedAll

SpecOneShot == InitOneShot /\ [][NextOneShot]_vars

----------------------------------------------------------------------------
(* Reading the history.                                                    *)

\* the parameters text of the items with tool index idx, concatenated
RECURSIVE ParamsOf(_, _)
ParamsOf(evs, idx) ==
    IF evs = <<>> THEN <<>>
    ELSE (IF Head(evs).kind = "item" /\ Head(evs).tool_index = idx
          THEN Head(evs).parameters ELSE <<>>) \o ParamsOf(Tail(evs), idx)

\* the items with tool index idx that carry a name
NamedItems(idx) ==
    {k \in 1..Len(events) : /\ events[k].kind = "item"
                            /\ events[k].tool_index = idx
                            /\ events[k].name # NoneV}

\* every fragment has been fed and a step has returned
AllFed == rest = <<>> /\ result # NoResult

----------------------------------------------------------------------------
\* C1 (diff accumulation): for every call whose closing delimiter was
\* consumed, the parameters of the items emitted with its tool index,
\* concatenated in emission order, are the serialized arguments of the call.
DiffAccumulationLaw ==
    \A k \in 1..Len(events) :
        events[k].kind = "close" =>
            ParamsOf(events, events[k].tool_index) = events[k].parameters

\* C2 (name once): at most one item per tool index carries a name, and no
\* item after it with that index carries one.
NameOnceLaw ==
    \A i, j \in 1..Len(events) :
        (/\ i < j
         /\ events[i].kind = "item" /\ events[j].kind = "item"
         /\ events[i].tool_index = events[j].tool_index
         /\ events[i].name # NoneV)
        => events[j].name = NoneV

\* a single well-formed call: opening delimiter, a JSON object with a name
\* and arguments, closing delimiter, and nothing else
WellFormedSingleCall(t) ==
    LET interior == Slice(t, Len(bot_token), Len(t) - Len(eot_token))
        r == json_loads(interior)
    IN  /\ Len(t) >= Len(bot_token) + Len(eot_token)
        /\ StartsWith(t, bot_token)
        /\ OccursAt(t, eot_token, Len(t) - Len(eot_token))
        /\ ~Contains(interior, bot_token) /\ ~Contains(interior, eot_token)
        /\ r.ok /\ IsDict(r.v)
        /\ Get(r.v, "N", AbsentV) # AbsentV /\ Get(r.v, "A", AbsentV) # AbsentV

\* C3 (chunk-size invariance): once every fragment of a well-formed
\* single-call text is fed, whatever the split, the name emitted for index 0
\* and the concatenated parameters text are the name and the serialized
\* arguments detect_and_parse returns for the whole text.
ChunkSizeInvariance ==
    (WellFormedSingleCall(text) /\ AllFed) =>
        LET shot == detect_and_parse(text)
        IN  /\ Len(shot.calls) = 1
            /\ NamedItems(0) # {}
            /\ \A k \in NamedItems(0) : events[k].name = shot.calls[1].name
            /\ ParamsOf(events, 0) = shot.calls[1].parameters

\* the items of the history
Items == {k \in 1..Len(events) : events[k].kind = "item"}

\* C4 (index monotonicity): the first item has index 0; from one item to the
\* next the index goes up by exactly one when a closing delimiter was
\* consumed between the two, and stays the same otherwise.
IndexMonotonicity ==
    /\ \A k \in Items : (\A j \in Items : k <= j) => events[k].tool_index = 0
    /\ \A p, q \in Items :
          (p < q /\ \A j \in Items : ~(p < j /\ j < q)) =>
              LET closed == \E c \in (p + 1)..(q - 1) : events[c].kind = "close"
              IN  events[q].tool_index =
                      events[p].tool_index + (IF closed THEN 1 ELSE 0)

\* C4 witness: two items of call 0 with no closer between them, then, after
\* the closer, an item of call 1
IndexWitness ==
    \E p, q, r \in Items :
        /\ p < q /\ q < r
        /\ events[p].tool_index = 0 /\ events[q].tool_index = 0
        /\ events[r].tool_index = 1

\* an opening delimiter, a JSON object, a closing delimiter, and nothing else
WellFormedRegion(t) ==
    LET interior == Slice(t, Len(bot_token), Len(t) - Len(eot_token))
        r == json_loads(interior)
    IN  /\ Len(t) >= Len(bot_token) + Len(eot_token)
        /\ StartsWith(t, bot_token)
        /\ OccursAt(t, eot_token, Len(t) - Len(eot_token))
        /\ ~Contains(interior, bot_token) /\ ~Contains(interior, eot_token)
        /\ r.ok /\ IsDict(r.v)

\* the name a well-formed region carries
RegionName(t) ==
    Get(json_loads(Slice(t, Len(bot_token), Len(t) - Len(eot_token))).v, "N", NoneV)

\* C6 (back-to-back calls): once every fragment of a text made of two
\* consecutive well-formed regions is fed, whatever the split, the items
\* emitted describe two calls, index 0 named as the left region and index 1
\* named as the right one.
BackToBackCalls ==
    \A k \in 1..(Len(text) - 1) :
        LET left == SubSeq(text, 1, k)
            right == SubSeq(text, k + 1, Len(text))
        IN  (WellFormedRegion(left) /\ WellFormedRegion(right) /\ AllFed) =>
                /\ {events[i].tool_index : i \in Items} = {0, 1}
                /\ \A i \in NamedItems(0) : events[i].name = RegionName(left)
                /\ \A i \in NamedItems(1) : events[i].name = RegionName(right)
                /\ NamedItems(0) # {} /\ NamedItems(1) # {}

\* the first opening delimiter of b is followed by a closing delimiter and
\* the text between them is a JSON object: a call a step would emit
HasResolvedCall(b) ==
    LET p == Find(b, bot_token, 0)
        e == IF p = -1 THEN -1 ELSE Find(b, eot_token, p + Len(bot_token))
        r == json_loads(Slice(b, p + Len(bot_token), e))
    IN  p # -1 /\ e # -1 /\ r.ok /\ IsDict(r.v)

FailSafeDegradation ==
    [][\A current_text \in {buffer \o SubSeq(rest, 1, Len(rest) - Len(rest'))} :
       \A p \in {Find(current_text, bot_token, 0)} :
         p # -1 =>
           \A e \in {Find(current_text, eot_token, p)} :
           \A r \in {json_loads(Slice(current_text, p + Len(bot_token),
                                      IF e # -1 THEN e ELSE Len(current_text)))} :
             (r.ok /\ ~IsDict(r.v)) =>
               /\ result'.normal_text = current_text
               /\ result'.calls = <<>>
               /\ buffer' = current_text
               /\ UNCHANGED <<current_tool_id, current_tool_name_sent, last_arguments,
                              prev_tool_call_arr, streamed_args_for_tool>>]_vars

\* C10 witness: the fail-safe return was taken after a call had been
\* consumed, so there is state to leave unchanged
FailSafeWitness ==
    /\ result.branch = "except"
    /\ current_tool_id = 1
    /\ result.normal_text = buffer
    /\ prev_tool_call_arr # <<>>

----------------------------------------------------------------------------
(* Claims on whole texts, under SpecOneShot.                               *)

\* the first step of a fresh detector, given the whole text
FirstStepOnWholeText ==
    /\ Fresh /\ result = NoResult
    /\ rest = text /\ rest' = <<>>
    /\ result' # NoResult

\* C5 as stated (no-delimiter passthrough): for a text without opening
\* delimiter, detect_and_parse and the first parse_streaming_increment each
\* return the text unchanged as plain text, and no calls.
NoDelimiterPassthrough ==
    /\ [](~Contains(text, bot_token) /\ oneshot # NotCalled =>
              oneshot.normal_text = text /\ oneshot.calls = <<>>)
    /\ [][~Contains(text, bot_token) /\ FirstStepOnWholeText =>
              result'.normal_text = text /\ result'.calls = <<>>]_vars

\* C5 as amended: for a text without opening delimiter, detect_and_parse
\* returns the text unchanged and no calls; the first
\* parse_streaming_increment returns no calls and the text without its
\* closing delimiters (so unchanged when it holds none).
NoOpenerPassthrough ==
    /\ [](~Contains(text, bot_token) /\ oneshot # NotCalled =>
              oneshot.normal_text = text /\ oneshot.calls = <<>>)
    /\ [][~Contains(text, bot_token) /\ FirstStepOnWholeText =>
              /\ result'.calls = <<>>
              /\ result'.normal_text = Remove(text, eot_token)
              /\ ~Contains(text, eot_token) => result'.normal_text = text]_vars

\* C5 witness: both entry points have returned on a text that holds a
\* closing delimiter and no opening one
PassthroughWitness ==
    /\ ~Contains(text, bot_token) /\ Contains(text, eot_token)
    /\ oneshot.branch = "no_tool_call" /\ oneshot.normal_text = text
    /\ result.branch = "no_tool_call"
    /\ result.normal_text # <<>> /\ result.normal_text # text

\* the offsets of the opening delimiters that a closing delimiter follows
RegionStarts(t) ==
    {p \in 0..Len(t) : OccursAt(t, bot_token, p) /\ Find(t, eot_token, p) # -1}

\* the text between the opening delimiter at p and the first closing
\* delimiter after it
Interior(t, p) == Slice(t, p + Len(bot_token), Find(t, eot_token, p))

\* the interior of the region at p is a JSON object
ParsesAsObject(t, p) ==
    LET r == json_loads(Interior(t, p)) IN r.ok /\ IsDict(r.v)

\* C8 (one-shot all-or-nothing): when the text holds a delimited region
\* whose interior is no JSON object, detect_and_parse returns the text as it
\* came as plain text, and no calls, whatever the other regions hold.
OneShotAllOrNothing ==
    (/\ oneshot # NotCalled
     /\ \E p \in RegionStarts(text) : ~ParsesAsObject(text, p))
    => oneshot.normal_text = text /\ oneshot.calls = <<>>

\* C8 witness: detect_and_parse gave up on a text that has a region that is
\* a JSON object next to one that is not
AllOrNothingWitness ==
    /\ oneshot.branch = "except"
    /\ \E p \in RegionStarts(text) : ParsesAsObject(text, p)
    /\ \E p \in RegionStarts(text) : ~ParsesAsObject(text, p)

\* nt is s without the whitespace at its two ends
IsTrimmed(nt, s) ==
    /\ nt = <<>> \/ (~IsSpace(nt[1]) /\ ~IsSpace(nt[Len(nt)]))
    /\ \E i \in 0..(Len(s) - Len(nt)) :
          /\ SubSeq(s, i + 1, i + Len(nt)) = nt
          /\ \A j \in 1..Len(s) : (j <= i \/ j > i + Len(nt)) => IsSpace(s[j])

\* C9 (one-shot plain text): when the text holds the opening delimiter and
\* every delimited region is a JSON object, the plain text is the text
\* before the first opening delimiter, trimmed, and the calls are those of
\* the terminated regions, one each, left to right; nothing else of the text
\* is returned.
OneShotPlainText ==
    (/\ oneshot # NotCalled
     /\ Contains(text, bot_token)
     /\ \A p \in RegionStarts(text) : ParsesAsObject(text, p))
    => /\ IsTrimmed(oneshot.normal_text, Slice(text, 0, Find(text, bot_token, 0)))
       /\ Len(oneshot.calls) = Cardinality(RegionStarts(text))
       /\ \A p \in RegionStarts(text) :
             LET k == Cardinality({q \in RegionStarts(text) : q < p}) + 1
             IN  /\ oneshot.calls[k].name = Get(json_loads(Interior(text, p)).v, "N", NoneV)
                 /\ oneshot.calls[k].tool_index = k - 1

\* C9 witness: two calls returned for a text with prose before the first
\* opening delimiter (trimmed in the result) and more text after the last
\* closing delimiter
OneShotPlainTextWitness ==
    /\ oneshot.branch = "parsed"
    /\ Len(oneshot.calls) = 2
    /\ oneshot.calls[1].name # oneshot.calls[2].name
    /\ oneshot.normal_text = <<"a">>
    /\ ~OccursAt(text, eot_token, Len(text) - Len(eot_token))

----------------------------------------------------------------------------
(* The branches of a step, one by one.  The fragment of a step is what     *)
(* rest lost; the region is looked up in buffer + fragment as the code     *)
(* does: the first opening delimiter, the first closing one after it.      *)

\* the detector's fields other than the buffer
bookkeeping ==
    <<current_tool_id, current_tool_name_sent, last_arguments,
      prev_tool_call_arr, streamed_args_for_tool>>

\* C11 (complete-call step): when buffer + fragment holds an opening
\* delimiter, a first closing delimiter after it and a JSON object between
\* them, the step returns empty plain text and exactly one item: its index
\* the tool index before the step (0 for -1), its name the parsed name, its
\* parameters the serialized arguments ("" when they are empty); afterwards
\* the buffer is the text after that closing delimiter, the tool index is the
\* emitted index plus one, the flag is false and the accumulator is empty.
CompleteCallStep ==
    [][\A current_text \in {buffer \o SubSeq(rest, 1, Len(rest) - Len(rest'))} :
       \A p \in {Find(current_text, bot_token, 0)} :
         p # -1 =>
           \A e \in {Find(current_text, eot_token, p)} :
             e # -1 =>
               \A r \in {json_loads(Slice(current_text, p + Len(bot_token), e))} :
                 (r.ok /\ IsDict(r.v)) =>
                   LET idx == IF current_tool_id = -1 THEN 0 ELSE current_tool_id
                       args == Get(r.v, "A", ObjV(<<>>))
                   IN  /\ result'.normal_text = <<>>
                       /\ Len(result'.calls) = 1
                       /\ result'.calls[1].tool_index = idx
                       /\ result'.calls[1].name = Get(r.v, "N", NoneV)
                       /\ result'.calls[1].parameters =
                              (IF args = ObjV(<<>>) THEN <<>> ELSE json_dumps(args))
                       /\ buffer' = Slice(current_text, e + Len(eot_token),
                                          Len(current_text))
                       /\ current_tool_id' = idx + 1
                       /\ current_tool_name_sent' = FALSE
                       /\ last_arguments' = <<>>]_vars

\* C11 witness: the second call was consumed, and text was left behind its
\* closing delimiter
CompleteCallWitness ==
    /\ result.branch = "complete_call"
    /\ current_tool_id = 2
    /\ result.calls[1].tool_index = 1
    /\ buffer # <<>>

\* C12 (early-complete streaming step): when buffer + fragment holds an
\* opening delimiter, no closing delimiter after it, and a complete JSON
\* object after the opening one, a step taken with the flag unset returns the
\* name item (parsed name, parameters "") and then, only if the serialized
\* arguments are not empty, one item without a name whose parameters are the
\* argument increment, both with the same index; the flag is set and the
\* buffer keeps everything.
EarlyCompleteStep ==
    [][\A current_text \in {buffer \o SubSeq(rest, 1, Len(rest) - Len(rest'))} :
       \A p \in {Find(current_text, bot_token, 0)} :
         (p # -1 /\ ~current_tool_name_sent /\ Find(current_text, eot_token, p) = -1) =>
           \A r \in {json_loads(Slice(current_text, p + Len(bot_token),
                                      Len(current_text)))} :
             (r.ok /\ IsDict(r.v)) =>
               LET idx == IF current_tool_id = -1 THEN 0 ELSE current_tool_id
                   args == Get(r.v, "A", ObjV(<<>>))
                   args_str == IF args = ObjV(<<>>) THEN <<>> ELSE json_dumps(args)
                   increment ==
                       IF StartsWith(args_str, last_arguments)
                       THEN SubSeq(args_str, Len(last_arguments) + 1, Len(args_str))
                       ELSE args_str
                   name_item == ToolCallItem(idx, Get(r.v, "N", NoneV), <<>>)
               IN  /\ result'.normal_text = <<>>
                   /\ result'.calls =
                          IF args_str # <<>>
                          THEN <<name_item, ToolCallItem(idx, NoneV, increment)>>
                          ELSE <<name_item>>
                   /\ args_str # <<>> => increment = args_str
                   /\ current_tool_name_sent'
                   /\ buffer' = current_text]_vars

\* C12 witness: the second call's JSON was complete before its closing
\* delimiter came, and the step returned the name and then the arguments
EarlyCompleteWitness ==
    /\ result.branch = "streaming"
    /\ Len(result.calls) = 2
    /\ result.calls[1].name # NoneV /\ result.calls[2].name = NoneV
    /\ result.calls[1].tool_index = 1
    /\ current_tool_id = 1

\* C13 (keep-buffering step): when buffer + fragment holds the opening
\* delimiter, no closing delimiter after it, and after the opening one
\* nothing or no complete JSON value, the step returns empty plain text and
\* no calls, and changes nothing but the buffer, which grows by the fragment.
KeepBufferingStep ==
    [][\A current_text \in {buffer \o SubSeq(rest, 1, Len(rest) - Len(rest'))} :
       \A p \in {Find(current_text, bot_token, 0)} :
         (p # -1 /\ Find(current_text, eot_token, p) = -1) =>
           \A after \in {Strip(Slice(current_text, p + Len(bot_token),
                                      Len(current_text)))} :
             (after = <<>> \/ ~json_loads(after).ok) =>
               /\ result'.normal_text = <<>>
               /\ result'.calls = <<>>
               /\ buffer' = current_text
               /\ UNCHANGED bookkeeping
               /\ UNCHANGED events]_vars

\* C13 witness: the detector waits inside the second call, after it streamed
\* the arguments of that call (index, flag and accumulator all hold something)
KeepBufferingWitness ==
    /\ result.branch = "incomplete"
    /\ current_tool_id = 1
    /\ current_tool_name_sent
    /\ last_arguments # <<>>

\* C14 (deferred malformed region): when in buffer + fragment the first
\* opening delimiter is followed by a closing delimiter and the text between
\* them fails JSON decoding, the step returns empty plain text and no calls,
\* the buffer is the previous buffer plus the fragment, and tool index, flag,
\* accumulator and tracking lists are unchanged.
DeferredMalformedStep ==
    [][\A current_text \in {buffer \o SubSeq(rest, 1, Len(rest) - Len(rest'))} :
       \A p \in {Find(current_text, bot_token, 0)} :
         p # -1 =>
           \A e \in {Find(current_text, eot_token, p)} :
             (e # -1 /\ ~json_loads(Slice(current_text, p + Len(bot_token), e)).ok) =>
               /\ result'.normal_text = <<>>
               /\ result'.calls = <<>>
               /\ buffer' = current_text
               /\ UNCHANGED bookkeeping
               /\ UNCHANGED events]_vars

\* C14 witness: a malformed region was deferred after a call had been
\* consumed and the name of the malformed one had been streamed
DeferredMalformedWitness ==
    /\ result.branch = "decode_error"
    /\ current_tool_id = 1
    /\ current_tool_name_sent
    /\ Contains(buffer, eot_token)

\* the closing delimiters consumed so far
Closes(evs) == Cardinality({k \in 1..Len(evs) : evs[k].kind = "close"})

\* what a step does with a buffer that holds a closed, well-formed call as
\* its first region: one complete item, and the region leaves the buffer
EmitsBufferedCall ==
    \A p \in {Find(buffer, bot_token, 0)} :
      p # -1 =>
        \A e \in {Find(buffer, eot_token, p)} :
          e # -1 =>
            \A r \in {json_loads(Slice(buffer, p + Len(bot_token), e))} :
              (r.ok /\ IsDict(r.v)) =>
                LET idx == IF current_tool_id = -1 THEN 0 ELSE current_tool_id
                    args == Get(r.v, "A", ObjV(<<>>))
                IN  /\ result'.calls =
                           <<ToolCallItem(idx, Get(r.v, "N", NoneV),
                                 IF args = ObjV(<<>>) THEN <<>> ELSE json_dumps(args))>>
                    /\ buffer' = Slice(buffer, e + Len(eot_token), Len(buffer))
                                    \o SubSeq(rest, 1, Len(rest) - Len(rest'))

\* C15 as stated (consumption progress): a closed, well-formed call that is
\* the first region of the buffer is emitted by the next step as one
\* complete item and leaves the buffer, whatever the fragment; a step
\* consumes at most one closing delimiter and raises the tool index by at
\* most one.
ConsumptionProgress ==
    [][/\ EmitsBufferedCall
       /\ Closes(events') - Closes(events) <= 1
       /\ current_tool_id' - current_tool_id <= 1]_vars

\* C15 as amended: the same, the tool index counted from 0 when it is -1 (the
\* step that consumes a call no step has streamed takes it from -1 to 1).
ConsumptionProgressFromZero ==
    [][/\ EmitsBufferedCall
       /\ Closes(events') - Closes(events) <= 1
       /\ current_tool_id' - (IF current_tool_id = -1 THEN 0 ELSE current_tool_id) <= 1
       /\ current_tool_id' >= current_tool_id]_vars

\* C15 witness: a step has emitted the second call, nothing is left to feed,
\* and a third closed call is the first region of the buffer: the next step
\* gets the empty fragment
ConsumptionProgressWitness ==
    /\ result.branch = "complete_call"
    /\ result.calls[1].tool_index = 1
    /\ rest = <<>>
    /\ HasResolvedCall(buffer)

\* C16 (stray-closer cleanup): in a step where buffer + fragment holds no
\* opening delimiter, the plain text returned is the fragment alone with the
\* closing delimiters taken out, there are no calls, and the buffer is empty
\* afterwards.
StrayCloserCleanup ==
    [][\A new_text \in {SubSeq(rest, 1, Len(rest) - Len(rest'))} :
         Find(buffer \o new_text, bot_token, 0) = -1 =>
           /\ result'.normal_text = Remove(new_text, eot_token)
           /\ result'.calls = <<>>
           /\ buffer' = <<>>]_vars

\* C16 witness: after a call was consumed, the last fragment brought prose
\* and a stray closing delimiter, and the prose alone came back
StrayCloserWitness ==
    /\ result.branch = "no_tool_call"
    /\ current_tool_id = 1
    /\ rest = <<>>
    /\ Len(text) > Len(eot_token)
    /\ OccursAt(text, <<"a">> \o eot_token, Len(text) - Len(eot_token) - 1)
    /\ result.normal_text = <<"a">>

\* the first opening delimiter of b is followed by a closing delimiter and
\* the text between them fails JSON decoding
Blocked(b) ==
    \E p \in {Find(b, bot_token, 0)} :
      /\ p # -1
      /\ \E e \in {Find(b, eot_token, p)} :
            e # -1 /\ ~json_loads(Slice(b, p + Len(bot_token), e)).ok

\* C17 (head-of-line blocking): once the first opening delimiter of the
\* buffer is followed by a closing delimiter around text that fails JSON
\* decoding, every later step returns empty plain text and no calls, emits
\* nothing, leaves the tool index alone and grows the buffer by its
\* fragment; the buffer stays in that condition.
HeadOfLineBlocking ==
    [][Blocked(buffer) =>
         /\ result'.normal_text = <<>>
         /\ result'.calls = <<>>
         /\ events' = events
         /\ current_tool_id' = current_tool_id
         /\ buffer' = buffer \o SubSeq(rest, 1, Len(rest) - Len(rest'))
         /\ Blocked(buffer')]_vars

\* C17 witness: a closed, well-formed call sits in the buffer behind the
\* malformed region, and the step returned nothing
HeadOfLineWitness ==
    /\ result.branch = "decode_error"
    /\ Blocked(buffer)
    /\ rest = <<>>
    /\ LET p == Find(buffer, bot_token, 0)
           e == Find(buffer, eot_token, p)
       IN  HasResolvedCall(Slice(buffer, e + Len(eot_token), Len(buffer)))

\* the payload of the first region of t (up to the closing delimiter, or to
\* the end) is JSON but no object: the step ends in the fail-safe return
RaisesOnPayload(t) ==
    \E p \in {Find(t, bot_token, 0)} :
      /\ p # -1
      /\ \E e \in {Find(t, eot_token, p)} :
         \E r \in {json_loads(Slice(t, p + Len(bot_token),
                                    IF e # -1 THEN e ELSE Len(t)))} :
            r.ok /\ ~IsDict(r.v)

\* the text the buffer holds around calls: what precedes its first opening
\* delimiter, or all of it when it holds none (what a consumed call left)
Around(b) ==
    LET p == Find(b, bot_token, 0)
    IN  IF p = -1 THEN b ELSE Slice(b, 0, p)

\* a step's plain text is empty when buffer + fragment holds the opening
\* delimiter and the step does not end in the fail-safe return; a consumed
\* call takes what preceded it out of the buffer; a step without an opening
\* delimiter returns its fragment only and empties the buffer
PlainTextLossSteps ==
    \A new_text \in {SubSeq(rest, 1, Len(rest) - Len(rest'))} :
    \A current_text \in {buffer \o new_text} :
    \A p \in {Find(current_text, bot_token, 0)} :
      /\ (p # -1 /\ ~RaisesOnPayload(current_text)) => result'.normal_text = <<>>
      /\ (p # -1 /\ result'.calls # <<>> /\ Closes(events') > Closes(events)) =>
            buffer' = Slice(current_text,
                            Find(current_text, eot_token, p) + Len(eot_token),
                            Len(current_text))
      /\ p = -1 => /\ result'.normal_text = Remove(new_text, eot_token)
                   /\ buffer' = <<>>

\* C18 as stated (plain-text loss around calls): PlainTextLossSteps, and no
\* step at all returns the text the buffer held around calls: with such text
\* buffered, a step's plain text is empty, or its own fragment when there is
\* no opening delimiter.
PlainTextLoss ==
    [][/\ PlainTextLossSteps
       /\ \A new_text \in {SubSeq(rest, 1, Len(rest) - Len(rest'))} :
            Around(buffer) # <<>> =>
              result'.normal_text =
                  IF Contains(buffer \o new_text, bot_token) THEN <<>>
                  ELSE Remove(new_text, eot_token)]_vars

\* C18 as amended: PlainTextLossSteps; only the fail-safe return, which hands
\* back the whole buffer, returns text the buffer held around calls.
PlainTextLossBarFailSafe ==
    [][/\ PlainTextLossSteps
       /\ \A new_text \in {SubSeq(rest, 1, Len(rest) - Len(rest'))} :
            (Around(buffer) # <<>> /\ ~RaisesOnPayload(buffer \o new_text)) =>
              result'.normal_text =
                  IF Contains(buffer \o new_text, bot_token) THEN <<>>
                  ELSE Remove(new_text, eot_token)]_vars

\* C18 witness: the text began with prose directly before a call and the call
\* was consumed: the prose came in the fragment of the opening delimiter (a
\* step that saw the prose without the whole opening delimiter would have
\* lost the call), was buffered, and left the buffer with the call
PlainTextLossWitness ==
    /\ result.branch = "complete_call"
    /\ result.normal_text = <<>>
    /\ current_tool_id = 1
    /\ StartsWith(text, <<"a">> \o bot_token)

\* the tool indices of the items emitted so far
ItemIndices == {events[k].tool_index : k \in Items}

\* the name of the last item with index idx that carries one
LastName(idx) ==
    events[CHOOSE k \in NamedItems(idx) : \A j \in NamedItems(idx) : j <= k].name

\* C19 (streamed-argument record): after every step, for every tool index i
\* with items emitted, streamed_args_for_tool[i] is the concatenation of the
\* parameters of the items with index i, and prev_tool_call_arr[i] holds the
\* name emitted for that call.
StreamedArgsRecord ==
    \A i \in ItemIndices :
        /\ i + 1 <= Len(streamed_args_for_tool)
        /\ streamed_args_for_tool[i + 1] = ParamsOf(events, i)
        /\ i + 1 <= Len(prev_tool_call_arr)
        /\ NamedItems(i) # {} => prev_tool_call_arr[i + 1].name = LastName(i)

\* C20 (tool-index bookkeeping): the tool index is -1, and then no closing
\* delimiter was consumed, or it is the number of closing delimiters
\* consumed; once it is not -1 the two tracking lists have the same length,
\* the tool index or one more; right after a consumed closing delimiter the
\* accumulator is empty.
ToolIndexBookkeeping ==
    /\ \/ current_tool_id = -1 /\ Closes(events) = 0
       \/ current_tool_id = Closes(events)
    /\ current_tool_id # -1 =>
          /\ Len(prev_tool_call_arr) = Len(streamed_args_for_tool)
          /\ Len(prev_tool_call_arr) \in {current_tool_id, current_tool_id + 1}
    /\ result.branch = "complete_call" => last_arguments = <<>>

\* C20 witness: one call consumed, the second being streamed: the lists are
\* one longer than the tool index
ToolIndexWitness ==
    /\ current_tool_id = 1
    /\ Closes(events) = 1
    /\ result.branch = "streaming"
    /\ Len(prev_tool_call_arr) = 2

====
